---- MODULE Spec2Model ----
(***************************************************************************)
(* minify-font: the command line tool (bin/minify-font.mjs, refactored     *)
(* version with parseArguments / determineCharacterText /                  *)
(* determineOutputFormats / generateOutputPaths / generateFonts), the      *)
(* codec wrapper minifyFont and the batch generator createWebFonts.        *)
(*                                                                         *)
(* A JavaScript string is a sequence of atoms.  In a text (words, a        *)
(* collection) every atom is one character (code point).  In a path, an    *)
(* argument or a format list the atoms "/", "." and "," are those single   *)
(* characters and every other atom is a non-empty run of characters that   *)
(* holds none of them.                                                     *)
(***************************************************************************)
EXTENDS Integers, Sequences, FiniteSets, TLC

VARIABLES
    pc,             \* position of runCLI
    args,           \* process.argv.slice(2)
    options,        \* the record parseArguments returns
    text,           \* determineCharacterText(...).text
    message,        \* determineCharacterText(...).message
    outputFormats,  \* determineOutputFormats(...)
    outputPaths,    \* generateOutputPaths(...)
    mkdirs,         \* directories handed to mkdir, in call order
    calls,          \* minifyFont invocations, in call order
    generatedFiles, \* generateFonts' generatedFiles
    files,          \* paths written by writeFile
    stdout,         \* what runCLI's try block printed, in order
    stderr,         \* what console.error reported
    exitCode,       \* process exit status, -1 while running
    web,            \* the state of one createWebFonts call
    ensure          \* the directories there are and the callers of ensureDir

vars == <<pc, args, options, text, message, outputFormats, outputPaths,
          mkdirs, calls, generatedFiles, files, stdout, stderr, exitCode, web,
          ensure>>

----------------------------------------------------------------------------
(* Bounds of the model *)

MaxWordLen == 3
MaxFormats == 3

----------------------------------------------------------------------------
(* JavaScript values that are not strings *)

Null == <<"<null>">>
Undefined == <<"<undefined>">>
ObjectFn == <<"<function Object>">>

IsString(v) == v \notin {Null, Undefined, ObjectFn}

Range(s) == {s[i] : i \in 1..Len(s)}

NoDup(s) == \A i, j \in 1..Len(s) : s[i] = s[j] => i = j

Max(a, b) == IF a >= b THEN a ELSE b

(* Characters outside the Basic Multilingual Plane take two UTF-16 code    *)
(* units; String.prototype.length and split('') count code units, the      *)
(* string iterator ([...s]) yields code points.                            *)
AstralChars == {"U+20BB7"}

Utf16Units(ch) == IF ch \in AstralChars THEN 2 ELSE 1

RECURSIVE StrLength(_)
StrLength(s) == IF s = <<>> THEN 0 ELSE Utf16Units(Head(s)) + StrLength(Tail(s))

(* v.length for the values text can hold: Object.length is 1 *)
JsLength(v) == IF v = ObjectFn THEN 1 ELSE StrLength(v)

(* Array.from(new Set(chars)): a Set keeps the first insertion of a value   *)
RECURSIVE SetOrderFrom(_, _)
SetOrderFrom(chars, seen) ==
    IF chars = <<>> THEN <<>>
    ELSE IF Head(chars) \in seen THEN SetOrderFrom(Tail(chars), seen)
    ELSE <<Head(chars)>> \o SetOrderFrom(Tail(chars), seen \cup {Head(chars)})

UniqueCharsKeepAll(chars) == chars

UniqueChars(chars) == SetOrderFrom(chars, {})

----------------------------------------------------------------------------
(* The character collections of package top-used-chars, cut down to a few   *)
(* characters each; every collection is free of duplicates.                *)

TOP_USED_500_CHARS == <<"c1", "c2">>
TOP_USED_2500_CHARS == <<"c1", "c2", "c3">>
COMMONLY_USED_CHARS == <<"c1", "c3", "A">>

CollectionNames == {"top500", "top2500", "commonlyUsed"}

(* Names every object literal inherits from Object.prototype *)
ObjectPrototypeKeys == {"constructor"}

(* COLLECTIONS[name]: a property read, so an inherited property is found too *)
COLLECTIONS(name) ==
    CASE name = <<"top500">> -> TOP_USED_500_CHARS
      [] name = <<"top2500">> -> TOP_USED_2500_CHARS
      [] name = <<"commonlyUsed">> -> COMMONLY_USED_CHARS
      [] Len(name) = 1 /\ name[1] \in ObjectPrototypeKeys -> ObjectFn
      [] OTHER -> Undefined

Truthy(v) == v \notin {Null, Undefined, <<>>}

(* a || b *)
Or(a, b) == IF Truthy(a) THEN a ELSE b

(* [...v] throws a TypeError when v is not iterable *)
Iterable(v) == IsString(v)

WordsPresentTruthy(words) == Truthy(words)

(* words !== null *)
WordsPresent(words) == words # Null

Msg(kind, collection, collLen, n) ==
    [kind |-> kind, collection |-> collection, collLen |-> collLen, n |-> n]

NoMessage == Msg("", <<>>, 0, 0)

determineCharacterText(words, collection, collectionSpecified) ==
    IF WordsPresent(words) /\ ~collectionSpecified THEN
        IF ~Iterable(words)
        THEN [threw |-> TRUE, text |-> Undefined, message |-> NoMessage]
        ELSE LET uniqueWords == UniqueChars(words)
             IN [threw |-> FALSE, text |-> uniqueWords,
                 message |-> Msg("Using specified words only", <<>>, 0,
                                 StrLength(uniqueWords))]
    ELSE IF WordsPresent(words) /\ collectionSpecified THEN
        LET collectionText == Or(COLLECTIONS(collection), TOP_USED_2500_CHARS)
        IN IF ~Iterable(collectionText) \/ ~Iterable(words)
           THEN [threw |-> TRUE, text |-> Undefined, message |-> NoMessage]
           ELSE LET combined == UniqueChars(collectionText \o words)
                IN [threw |-> FALSE, text |-> combined,
                    message |-> Msg("Using collection + custom words", collection,
                                    StrLength(collectionText), StrLength(combined))]
    ELSE
        LET t == Or(COLLECTIONS(collection), TOP_USED_2500_CHARS)
        IN [threw |-> FALSE, text |-> t,
            message |-> Msg("Using character collection", collection, 0, JsLength(t))]

----------------------------------------------------------------------------
(* Strings as paths: node:path (posix) and the regular expressions of      *)
(* generateOutputPaths                                                      *)

MaxDepth == 1

Slash == "/"
Dot == "."

(* index of the last atom of s that is a (is = TRUE) or is not a (is =      *)
(* FALSE), 0 when there is none                                            *)
(* (v is s and hits the set of matching indices, each bound to its value so *)
(* that it is computed once)                                               *)
LastIndex(s, a, is) ==
    CHOOSE k \in {IF hits = {} THEN 0 ELSE CHOOSE i \in hits : \A j \in hits : j <= i :
                     hits \in {{i \in 1..Len(v) : (v[i] = a) = is} : v \in {s}}} : TRUE

(* path.extname: the extension of the last segment, trailing separators    *)
(* ignored; "" for a segment with no dot, for a leading dot and for ".."   *)
extname(path) ==
    LET end == LastIndex(path, Slash, FALSE)
        startPart == LastIndex(SubSeq(path, 1, end), Slash, TRUE) + 1
        seg == SubSeq(path, startPart, end)
        startDot == LastIndex(seg, Dot, TRUE)
    IN IF end = 0 \/ startDot = 0 \/ startDot = 1 THEN <<>>
       ELSE IF seg = <<Dot, Dot>> THEN <<>>
       ELSE SubSeq(seg, startDot, Len(seg))

(* s.slice(1) *)
Slice1(s) == IF s = <<>> THEN <<>> ELSE Tail(s)

(* path.dirname *)
dirname(path) ==
    LET hasRoot == path # <<>> /\ path[1] = Slash
        lastName == LastIndex(path, Slash, FALSE)
        before == {i \in 2..Len(path) : path[i] = Slash /\ i < lastName}
        end == IF before = {} THEN 0
               ELSE CHOOSE i \in before : \A j \in before : j <= i
    IN IF path = <<>> THEN <<Dot>>
       ELSE IF end = 0 THEN (IF hasRoot THEN <<Slash>> ELSE <<Dot>>)
       ELSE IF hasRoot /\ end = 2 THEN <<Slash, Slash>>
       ELSE SubSeq(path, 1, end - 1)

(* s.replace(/\.[^/.]+$/, repl): the match starts at the last dot, needs at *)
(* least one character after it and no separator up to the end of s        *)
ReplaceExtension(s, repl) ==
    LET k == LastIndex(s, Dot, TRUE)
    IN IF k > 0 /\ k < Len(s) /\ \A j \in (k + 1)..Len(s) : s[j] # Slash
       THEN SubSeq(s, 1, k - 1) \o repl
       ELSE s

(* s.replace(/^.*[\\/]/, ''): everything up to the last separator goes *)
StripDirectories(s) == SubSeq(s, LastIndex(s, Slash, TRUE) + 1, Len(s))

getInputFileName(input) == ReplaceExtension(StripDirectories(input), <<>>)

(* output && extname(output), read as a condition *)
HasOutputExtension(output) == Truthy(output) /\ extname(output) # <<>>

(* formats.split(','): the pieces between the commas *)
RECURSIVE Split(_)
Split(s) ==
    LET commas == {i \in 1..Len(s) : s[i] = ","}
    IN IF commas = {} THEN <<s>>
       ELSE LET k == CHOOSE i \in commas : \A j \in commas : i <= j
            IN <<SubSeq(s, 1, k - 1)>> \o Split(SubSeq(s, k + 1, Len(s)))

(* f.trim() *)
RECURSIVE Trim(_)
Trim(s) ==
    IF s # <<>> /\ Head(s) = " " THEN Trim(Tail(s))
    ELSE IF s # <<>> /\ s[Len(s)] = " " THEN Trim(SubSeq(s, 1, Len(s) - 1))
    ELSE s

DefaultFormats == << <<"ttf">>, <<"woff">>, <<"woff2">> >>

determineOutputFormatsExtensionFirst(formats, output) ==
    IF HasOutputExtension(output) THEN <<Slice1(extname(output))>>
    ELSE IF Truthy(formats) THEN [i \in 1..Len(Split(formats)) |-> Trim(Split(formats)[i])]
    ELSE DefaultFormats

determineOutputFormats(formats, output) ==
    IF Truthy(formats) THEN [i \in 1..Len(Split(formats)) |-> Trim(Split(formats)[i])]
    ELSE IF HasOutputExtension(output) THEN <<Slice1(extname(output))>>
    ELSE DefaultFormats

(* path.basename(path, ext): the last segment, trailing separators ignored, *)
(* without the suffix ext unless ext is the whole segment                   *)
basename(path, ext) ==
    LET end == LastIndex(path, Slash, FALSE)
        startPart == LastIndex(SubSeq(path, 1, end), Slash, TRUE) + 1
        seg == SubSeq(path, startPart, end)
        n == Len(seg) - Len(ext)
    IN IF ext # <<>> /\ n > 0 /\ SubSeq(seg, n + 1, Len(seg)) = ext
       THEN SubSeq(seg, 1, n)
       ELSE IF ext # <<>> /\ ext = path THEN <<>>
       ELSE seg

OutputPathForFileNameOnly(input, output, format) ==
    LET inputFileName == ReplaceExtension(StripDirectories(input), <<>>)
    IN IF HasOutputExtension(output)
       THEN ReplaceExtension(output, <<Dot>> \o format)
       ELSE IF Truthy(output)
       THEN output \o <<Slash>> \o inputFileName \o <<Dot, "min", Dot>> \o format
       ELSE inputFileName \o <<Dot, "min", Dot>> \o format

(* the body of generateOutputPaths' loop: the path of one format *)
OutputPathFor(input, output, format) ==
    LET inputBaseName == ReplaceExtension(input, <<>>)
        inputFileName == ReplaceExtension(StripDirectories(input), <<>>)
    IN IF HasOutputExtension(output)
       THEN ReplaceExtension(output, <<Dot>> \o format)
       ELSE IF Truthy(output)
       THEN output \o <<Slash>> \o inputFileName \o <<Dot, "min", Dot>> \o format
       ELSE inputBaseName \o <<Dot, "min", Dot>> \o format

RECURSIVE PushPaths(_, _, _, _)
PushPaths(acc, input, output, rest) ==
    IF rest = <<>> THEN acc
    ELSE PushPaths(Append(acc, OutputPathFor(input, output, Head(rest))),
                   input, output, Tail(rest))

RECURSIVE UnshiftPaths(_, _, _, _)
UnshiftPaths(acc, input, output, rest) ==
    IF rest = <<>> THEN acc
    ELSE UnshiftPaths(<<OutputPathFor(input, output, Head(rest))>> \o acc,
                      input, output, Tail(rest))

generateOutputPathsUnshift(input, output, formats) ==
    UnshiftPaths(<<>>, input, output, formats)

generateOutputPaths(input, output, formats) == PushPaths(<<>>, input, output, formats)

----------------------------------------------------------------------------
(* parseArguments *)

EmptyObject == [k \in {} |-> Null]

(* a spread in which the keys of a win *)
SpreadFirstWins(a, b) == a @@ b

(* {...a, ...b}: the keys of b win *)
Spread(a, b) == b @@ a

(* JSON.parse on the argument texts the model draws from; anything else,    *)
(* undefined included, is a SyntaxError                                     *)
JsonEmpty == <<"{}">>
JsonHinting == <<"{\"hinting\":true}">>
JsonTypeSvg == <<"{\"type\":\"svg\",\"subset\":[66]}">>

JsonValid(s) == s \in {JsonEmpty, JsonHinting, JsonTypeSvg}

JsonParse(s) ==
    CASE s = JsonEmpty -> EmptyObject
      [] s = JsonHinting -> [hinting |-> <<"true">>]
      [] s = JsonTypeSvg -> [type |-> <<"svg">>, subset |-> <<"B">>]

(* arg.startsWith('-') *)
DashAtoms == {"-c", "--collection", "-w", "--words", "-o", "--output", "-f",
              "--formats", "--input-options", "--output-options", "-h",
              "--help", "-v", "--version", "-x"}

StartsWithDash(arg) == arg # <<>> /\ arg[1] \in DashAtoms

(* Object.keys(COLLECTIONS) *)
CollectionKeys == <<"top500", "top2500", "commonlyUsed">>

Report(kind, detail) == [kind |-> kind, detail |-> detail]

Exited(code, report, o) == [exit |-> code, err |-> report, options |-> o]

Parsed(o) == [exit |-> -1, err |-> <<>>, options |-> o]

(* the for loop of parseArguments from index i on, and what follows it *)
RECURSIVE ParseLoop(_, _, _)
ParseLoop(a, i, o) ==
    IF i > Len(a) THEN
        IF ~Truthy(o.input)
        THEN Exited(1, <<Report("Error: Input font path is required", <<>>)>>, o)
        ELSE Parsed(o)
    ELSE
        LET arg == a[i]
            value == IF i + 1 <= Len(a) THEN a[i + 1] ELSE Undefined
        IN CASE arg \in {<<"-h">>, <<"--help">>} -> Exited(0, <<>>, o)
             [] arg \in {<<"-v">>, <<"--version">>} -> Exited(0, <<>>, o)
             [] arg \in {<<"-c">>, <<"--collection">>} ->
                    IF ~Truthy(COLLECTIONS(value))
                    THEN Exited(1, <<Report("Error: Invalid collection",
                                            <<value, CollectionKeys>>)>>, o)
                    ELSE ParseLoop(a, i + 2, [o EXCEPT !.collection = value,
                                                       !.collectionSpecified = TRUE])
             [] arg \in {<<"-w">>, <<"--words">>} ->
                    ParseLoop(a, i + 2, [o EXCEPT !.words = value])
             [] arg \in {<<"-o">>, <<"--output">>} ->
                    ParseLoop(a, i + 2, [o EXCEPT !.output = value])
             [] arg \in {<<"-f">>, <<"--formats">>} ->
                    ParseLoop(a, i + 2, [o EXCEPT !.formats = value])
             [] arg = <<"--input-options">> ->
                    IF ~JsonValid(value)
                    THEN Exited(1, <<Report("Invalid JSON for --input-options", value)>>, o)
                    ELSE ParseLoop(a, i + 2, [o EXCEPT !.inputOptions = JsonParse(value)])
             [] arg = <<"--output-options">> ->
                    IF ~JsonValid(value)
                    THEN Exited(1, <<Report("Invalid JSON for --output-options", value)>>, o)
                    ELSE ParseLoop(a, i + 2, [o EXCEPT !.outputOptions = JsonParse(value)])
             [] OTHER ->
                    IF StartsWithDash(arg)
                    THEN Exited(1, <<Report("Unknown option", arg)>>, o)
                    ELSE IF ~Truthy(o.input)
                    THEN ParseLoop(a, i + 1, [o EXCEPT !.input = arg])
                    ELSE Exited(1, <<Report("Multiple input files not supported", <<>>)>>, o)

NoOptions ==
    [input |-> Null, words |-> Null, collection |-> <<"top2500">>,
     collectionSpecified |-> FALSE, output |-> Null, formats |-> Null,
     inputOptions |-> EmptyObject, outputOptions |-> EmptyObject]

parseArguments(a) == ParseLoop(a, 1, NoOptions)

----------------------------------------------------------------------------
(* minifyFont *)

VALID_FONT_TYPES == {<<"ttf">>, <<"otf">>, <<"eot">>, <<"svg">>, <<"woff">>, <<"woff2">>}

(* d.charCodeAt(0) for each element of text.split(''): one entry per UTF-16 *)
(* code unit, so a character outside the BMP gives its two surrogates       *)
RECURSIVE CharCodes(_)
CharCodes(s) ==
    IF s = <<>> THEN <<>>
    ELSE (IF Head(s) \in AstralChars THEN <<"D842", "DFB7">> ELSE <<Head(s)>>)
         \o CharCodes(Tail(s))

(* the subset with every character code listed once *)
SubsetOfDistinct(t) == IF Truthy(t) THEN UniqueChars(CharCodes(t)) ELSE t

(* text && text.split('').map(d => d.charCodeAt(0)) *)
SubsetOf(t) == IF Truthy(t) THEN CharCodes(t) ELSE t

(* where the environment makes a call fail *)
Faults == {"none", "woff2.init", "readFile", "Font.create", "write", "writeFile"}

NotCalled == [type |-> Null]

Rejected(error, created, createOptions) ==
    [status |-> "rejected", error |-> error, created |-> created,
     createOptions |-> createOptions, writeOptions |-> NotCalled, wrote |-> FALSE]

(* minifyFont with the check of the output type ahead of the other checks *)
minifyFontOutputTypeFirst(c, fs, fault) ==
    LET inputType == Slice1(extname(c.input))
        outputType == Slice1(extname(c.output))
        createOptions == Spread(c.inputOptions,
                                [type |-> inputType, subset |-> SubsetOf(c.text)])
        writeOptions == Spread(c.outputOptions, [type |-> outputType])
    IN IF outputType \notin VALID_FONT_TYPES
       THEN Rejected("Invalid output font type", FALSE, NotCalled)
       ELSE IF c.input \notin fs THEN Rejected("is not exists", FALSE, NotCalled)
       ELSE IF inputType \notin VALID_FONT_TYPES
       THEN Rejected("Invalid input font type", FALSE, NotCalled)
       ELSE IF (inputType = <<"woff2">> \/ outputType = <<"woff2">>) /\ fault = "woff2.init"
       THEN Rejected("woff2.init failed", FALSE, NotCalled)
       ELSE IF fault = "readFile" THEN Rejected("readFile failed", FALSE, NotCalled)
       ELSE IF Truthy(c.text) /\ ~IsString(c.text)
       THEN Rejected("TypeError: text.split is not a function", FALSE, NotCalled)
       ELSE IF fault = "Font.create" THEN Rejected("Font.create failed", TRUE, createOptions)
       ELSE IF fault = "write" THEN Rejected("font.write failed", TRUE, createOptions)
       ELSE IF fault = "writeFile"
       THEN [status |-> "rejected", error |-> "writeFile failed", created |-> TRUE,
             createOptions |-> createOptions, writeOptions |-> writeOptions,
             wrote |-> FALSE]
       ELSE [status |-> "fulfilled", error |-> "", created |-> TRUE,
             createOptions |-> createOptions, writeOptions |-> writeOptions,
             wrote |-> TRUE]

(* one call of minifyFont against the file system fs; createOptions and     *)
(* writeOptions are what Font.create and font.write were handed, created    *)
(* tells whether Font.create was called at all                              *)
minifyFont(c, fs, fault) ==
    LET inputType == Slice1(extname(c.input))
        outputType == Slice1(extname(c.output))
        createOptions == Spread(c.inputOptions,
                                [type |-> inputType, subset |-> SubsetOf(c.text)])
        writeOptions == Spread(c.outputOptions, [type |-> outputType])
    IN IF c.input \notin fs THEN Rejected("is not exists", FALSE, NotCalled)
       ELSE IF inputType \notin VALID_FONT_TYPES
       THEN Rejected("Invalid input font type", FALSE, NotCalled)
       ELSE IF outputType \notin VALID_FONT_TYPES
       THEN Rejected("Invalid output font type", FALSE, NotCalled)
       ELSE IF (inputType = <<"woff2">> \/ outputType = <<"woff2">>) /\ fault = "woff2.init"
       THEN Rejected("woff2.init failed", FALSE, NotCalled)
       ELSE IF fault = "readFile" THEN Rejected("readFile failed", FALSE, NotCalled)
       ELSE IF Truthy(c.text) /\ ~IsString(c.text)
       THEN Rejected("TypeError: text.split is not a function", FALSE, NotCalled)
       ELSE IF fault = "Font.create" THEN Rejected("Font.create failed", TRUE, createOptions)
       ELSE IF fault = "write" THEN Rejected("font.write failed", TRUE, createOptions)
       ELSE IF fault = "writeFile"
       THEN [status |-> "rejected", error |-> "writeFile failed", created |-> TRUE,
             createOptions |-> createOptions, writeOptions |-> writeOptions,
             wrote |-> FALSE]
       ELSE [status |-> "fulfilled", error |-> "", created |-> TRUE,
             createOptions |-> createOptions, writeOptions |-> writeOptions,
             wrote |-> TRUE]

(* Font.create's subset option: a list of code points keeps those glyphs, a *)
(* falsy value keeps every glyph of the font                               *)
AllCharCodes == {"A", "B", "c1", "c2", "c3", "D842", "DFB7"}

RetainedByCodec(subset) == IF Truthy(subset) THEN Range(subset) ELSE AllCharCodes

----------------------------------------------------------------------------
(* The inputs the model draws from *)

FontTtf == <<"font", Dot, "ttf">>

WordChars == {"A", "c1", "U+20BB7"}

(* every text of at most MaxWordLen characters *)
Words == UNION {[1..n -> WordChars] : n \in 0..MaxWordLen}

(* the names -c lets through: COLLECTIONS[name] is truthy *)
AcceptedCollections ==
    {<<n>> : n \in CollectionNames} \cup {<<k>> : k \in ObjectPrototypeKeys}

DirNames == {<<"dist">>, <<"my", Dot, "dir">>}

(* directory prefixes of at most MaxDepth segments, each ending in "/" *)
RECURSIVE DirPrefixes(_)
DirPrefixes(n) ==
    IF n = 0 THEN {<<>>}
    ELSE DirPrefixes(n - 1) \cup
         {p \o d \o <<Slash>> : p \in DirPrefixes(n - 1), d \in DirNames}

InputFileNames == {FontTtf, <<"font">>}

InputPaths == {p \o f : p \in DirPrefixes(MaxDepth), f \in InputFileNames}

OutputFileNames == {<<"out", Dot, "woff2">>, <<"out", Dot, "tar", Dot, "gz">>}

(* output specs: none, a directory with or without its trailing separator, *)
(* a file                                                                  *)
OutputSpecs ==
    {Null}
    \cup {p : p \in DirPrefixes(MaxDepth + 1) \ {<<>>}}
    \cup {SubSeq(p, 1, Len(p) - 1) : p \in DirPrefixes(MaxDepth + 1) \ {<<>>}}
    \cup {p \o f : p \in DirPrefixes(MaxDepth), f \in OutputFileNames}

FormatNames == {<<"ttf">>, <<"woff">>, <<"woff2">>}

(* every non-empty format list of at most MaxFormats formats *)
FormatLists == UNION {[1..n -> FormatNames] : n \in 1..MaxFormats}

WebIdle == [pc |-> "idle"]

EnsureIdle == [dirs |-> {}, callers |-> <<>>, mkdirSyncCalls |-> <<>>]

----------------------------------------------------------------------------
(* runCLI, step by step *)

(* file.split('.').pop(): what follows the last dot, the whole path when *)
(* it has none                                                           *)
PopExt(file) == SubSeq(file, LastIndex(file, Dot, TRUE) + 1, Len(file))

(* a map without the ttf entry: every extension is its own keyword *)
formatMapIdentity(ext) == ext

(* formatMap[ext] || ext, on the extensions minifyFont accepts *)
formatMap(ext) == IF ext = <<"ttf">> THEN <<"truetype">> ELSE ext

(* order[ext], -1 for undefined *)
order(ext) ==
    IF ext = <<"woff2">> THEN 0
    ELSE IF ext = <<"woff">> THEN 1
    ELSE IF ext = <<"ttf">> THEN 2
    ELSE -1

(* order[ext] || 3: undefined and 0 are both falsy *)
SortKey(file) ==
    LET v == order(PopExt(file)) IN IF v = -1 \/ v = 0 THEN 3 ELSE v

(* [...generatedFiles].sort(comparator): a stable sort on the keys *)
sortedFiles(generatedFilesArg) ==
    LET Keyed(k) == LET Test(f) == SortKey(f) = k IN SelectSeq(generatedFilesArg, Test)
    IN Keyed(0) \o Keyed(1) \o Keyed(2) \o Keyed(3)

(* one url(...) format('...') entry *)
SrcEntry(file) == [url |-> file, format |-> formatMap(PopExt(file))]

(* generateFontFaceCSS: the font-family and the src entries of the block *)
generateFontFaceCSS(generatedFilesArg, inputFileName) ==
    LET sorted == sortedFiles(generatedFilesArg)
    IN [family |-> inputFileName,
        src |-> [i \in 1..Len(sorted) |-> SrcEntry(sorted[i])]]

(* a handler that reports the error and lets the run end as a success *)
HandleErrorExitZero(error) ==
    /\ stderr' = Append(stderr, Report("Error minifying font", error))
    /\ exitCode' = 0
    /\ pc' = "exit"

(* handleError: report, process.exit(1) *)
HandleError(error) ==
    /\ stderr' = Append(stderr, Report("Error minifying font", error))
    /\ exitCode' = 1
    /\ pc' = "exit"

DetermineCharacterText ==
    /\ pc = "parsed"
    /\ LET r == determineCharacterText(options.words, options.collection,
                                       options.collectionSpecified)
       IN IF r.threw
          THEN /\ HandleError("TypeError: not iterable")
               /\ stdout' = Append(stdout, Report("Processing", options.input))
               /\ UNCHANGED <<text, message>>
          ELSE /\ text' = r.text
               /\ message' = r.message
               /\ stdout' = stdout \o <<Report("Processing", options.input),
                                         Report("message", r.message)>>
               /\ pc' = "text"
               /\ UNCHANGED <<stderr, exitCode>>
    /\ UNCHANGED <<ensure, args, options, outputFormats, outputPaths, mkdirs, calls,
                   generatedFiles, files, web>>

DetermineOutputFormats ==
    /\ pc = "text"
    /\ outputFormats' = determineOutputFormats(options.formats, options.output)
    /\ pc' = "formats"
    /\ UNCHANGED <<ensure, stdout, args, options, text, message, outputPaths, mkdirs, calls,
                   generatedFiles, files, stderr, exitCode, web>>

GenerateOutputPaths ==
    /\ pc = "formats"
    /\ outputPaths' = generateOutputPaths(options.input, options.output, outputFormats)
    /\ pc' = "paths"
    /\ UNCHANGED <<ensure, stdout, args, options, text, message, outputFormats, mkdirs, calls,
                   generatedFiles, files, stderr, exitCode, web>>

----------------------------------------------------------------------------
(* determineCharacterText on every (words, collection, collectionSpecified) *)
(* parseArguments can return                                                *)

InitText ==
    /\ pc = "parsed"
    /\ args = <<>>
    /\ \E w \in Words \cup {Null, Undefined} :
       \E c \in AcceptedCollections :
       \E cs \in BOOLEAN :
          /\ ~cs => c = <<"top2500">>
          /\ options = [NoOptions EXCEPT !.input = FontTtf, !.words = w,
                                         !.collection = c,
                                         !.collectionSpecified = cs]
    /\ text = Undefined
    /\ message = NoMessage
    /\ outputFormats = <<>>
    /\ outputPaths = <<>>
    /\ mkdirs = <<>>
    /\ calls = <<>>
    /\ generatedFiles = <<>>
    /\ files = {}
    /\ stdout = <<>>
    /\ ensure = EnsureIdle
    /\ stderr = <<>>
    /\ exitCode = -1
    /\ web = WebIdle

SpecText == InitText /\ [][DetermineCharacterText]_vars

(* generateOutputPaths on every (input, output, outputFormats) *)

InitPaths ==
    /\ pc = "formats"
    /\ args = <<>>
    /\ \E i \in InputPaths :
       \E o \in OutputSpecs :
          options = [NoOptions EXCEPT !.input = i, !.output = o]
    /\ text = TOP_USED_2500_CHARS
    /\ message = Msg("Using character collection", <<"top2500">>, 0,
                     StrLength(TOP_USED_2500_CHARS))
    /\ outputFormats \in FormatLists
    /\ outputPaths = <<>>
    /\ mkdirs = <<>>
    /\ calls = <<>>
    /\ generatedFiles = <<>>
    /\ files = {}
    /\ stdout = <<>>
    /\ ensure = EnsureIdle
    /\ stderr = <<>>
    /\ exitCode = -1
    /\ web = WebIdle

SpecPaths == InitPaths /\ [][GenerateOutputPaths]_vars

(* determineOutputFormats on its own: every -f value and output spec *)

(* the text of a format list: the names joined by a comma and sep *)
RECURSIVE JoinCsv(_, _)
JoinCsv(list, sep) ==
    IF Len(list) = 1 THEN Head(list)
    ELSE Head(list) \o <<",">> \o sep \o JoinCsv(Tail(list), sep)

CsvSeparators == {<<>>, <<" ">>}

(* the values of options.formats: -f not given, -f as the last argument,    *)
(* -f "", and the lists written with and without a space after the comma    *)
FormatArgs ==
    {Null, Undefined, <<>>}
       \cup {JoinCsv(l, sep) : l \in FormatLists, sep \in CsvSeparators}

InitFormats ==
    /\ pc = "text"
    /\ args = <<>>
    /\ \E f \in FormatArgs :
       \E o \in OutputSpecs :
          options = [NoOptions EXCEPT !.input = FontTtf, !.formats = f, !.output = o]
    /\ text = TOP_USED_2500_CHARS
    /\ message = Msg("Using character collection", <<"top2500">>, 0,
                     StrLength(TOP_USED_2500_CHARS))
    /\ outputFormats = <<>>
    /\ outputPaths = <<>>
    /\ mkdirs = <<>>
    /\ calls = <<>>
    /\ generatedFiles = <<>>
    /\ files = {}
    /\ stdout = <<>>
    /\ ensure = EnsureIdle
    /\ stderr = <<>>
    /\ exitCode = -1
    /\ web = WebIdle

SpecFormats == InitFormats /\ [][DetermineOutputFormats]_vars

----------------------------------------------------------------------------
(* A whole run of the command line tool *)

ParseArguments ==
    /\ pc = "start"
    /\ IF Len(args) = 0
       THEN /\ pc' = "exit"
            /\ exitCode' = 0
            /\ UNCHANGED <<options, stderr>>
       ELSE LET r == parseArguments(args)
            IN IF r.exit # -1
               THEN /\ pc' = "exit"
                    /\ exitCode' = r.exit
                    /\ stderr' = stderr \o r.err
                    /\ UNCHANGED options
               ELSE /\ pc' = "parsed"
                    /\ options' = r.options
                    /\ UNCHANGED <<stderr, exitCode>>
    /\ UNCHANGED <<ensure, stdout, args, text, message, outputFormats, outputPaths, mkdirs, calls,
                   generatedFiles, files, web>>

(* a first loop that leaves after the directory of the first path *)
MkdirFirstOnly ==
    /\ pc = "paths"
    /\ Len(mkdirs) < Len(outputPaths)
    /\ mkdirs' = Append(mkdirs, dirname(outputPaths[Len(mkdirs) + 1]))
    /\ \/ /\ pc' = "generate"
          /\ stdout' = Append(stdout, Report("Generating", outputFormats))
          /\ UNCHANGED <<stderr, exitCode>>
       \/ /\ HandleError("mkdir failed")
          /\ UNCHANGED stdout
    /\ UNCHANGED <<ensure, args, options, text, message, outputFormats, outputPaths, calls,
                   generatedFiles, files, web>>

(* generateFonts, first loop: await mkdir(dirname(outputPath), {recursive}) *)
Mkdir ==
    /\ pc = "paths"
    /\ Len(mkdirs) < Len(outputPaths)
    /\ mkdirs' = Append(mkdirs, dirname(outputPaths[Len(mkdirs) + 1]))
    /\ \/ /\ pc' = IF Len(mkdirs') = Len(outputPaths) THEN "generate" ELSE "paths"
          /\ stdout' = IF Len(mkdirs') = Len(outputPaths)
                       THEN Append(stdout, Report("Generating", outputFormats))
                       ELSE stdout
          /\ UNCHANGED <<stderr, exitCode>>
       \/ /\ HandleError("mkdir failed")
          /\ UNCHANGED stdout
    /\ UNCHANGED <<ensure, args, options, text, message, outputFormats, outputPaths, calls,
                   generatedFiles, files, web>>

(* a second loop that hands every call the first output path *)
MinifyFontCallFirstPath ==
    /\ pc = "generate"
    /\ LET i == Len(calls) + 1
           c == [input |-> options.input, output |-> outputPaths[1], text |-> text,
                 inputOptions |-> options.inputOptions,
                 outputOptions |-> options.outputOptions]
       IN \E fault \in Faults :
            LET r == minifyFont(c, files, fault)
            IN /\ calls' = Append(calls, [call |-> c, result |-> r])
               /\ stdout' = stdout \o <<Report("format started", outputFormats[i])>>
                                   \o IF r.status = "fulfilled"
                                      THEN <<Report("format done", outputFormats[i])>>
                                      ELSE <<>>
               /\ IF r.status = "fulfilled"
                  THEN /\ files' = files \cup {c.output}
                       /\ generatedFiles' = Append(generatedFiles, c.output)
                       /\ pc' = IF i = Len(outputFormats) THEN "generated" ELSE "generate"
                       /\ UNCHANGED <<stderr, exitCode>>
                  ELSE /\ HandleError(r.error)
                       /\ UNCHANGED <<files, generatedFiles>>
    /\ UNCHANGED <<ensure, args, options, text, message, outputFormats, outputPaths, mkdirs, web>>

(* generateFonts, second loop: await minifyFont({...}) for the next format *)
MinifyFontCall ==
    /\ pc = "generate"
    /\ LET i == Len(calls) + 1
           c == [input |-> options.input, output |-> outputPaths[i], text |-> text,
                 inputOptions |-> options.inputOptions,
                 outputOptions |-> options.outputOptions]
       IN \E fault \in Faults :
            LET r == minifyFont(c, files, fault)
            IN /\ calls' = Append(calls, [call |-> c, result |-> r])
               /\ stdout' = stdout \o <<Report("format started", outputFormats[i])>>
                                   \o IF r.status = "fulfilled"
                                      THEN <<Report("format done", outputFormats[i])>>
                                      ELSE <<>>
               /\ IF r.status = "fulfilled"
                  THEN /\ files' = files \cup {c.output}
                       /\ generatedFiles' = Append(generatedFiles, c.output)
                       /\ pc' = IF i = Len(outputFormats) THEN "generated" ELSE "generate"
                       /\ UNCHANGED <<stderr, exitCode>>
                  ELSE /\ HandleError(r.error)
                       /\ UNCHANGED <<files, generatedFiles>>
    /\ UNCHANGED <<ensure, args, options, text, message, outputFormats, outputPaths, mkdirs, web>>

(* the success report and the @font-face block; runCLI returns *)
Finish ==
    /\ pc = "generated"
    /\ \E inputFileName \in {getInputFileName(options.input)} :
          stdout' = stdout \o
             <<Report("Generated successfully", generatedFiles),
               Report("CSS @font-face", inputFileName),
               Report("css", generateFontFaceCSS(generatedFiles, inputFileName))>>
    /\ pc' = "done"
    /\ exitCode' = 0
    /\ UNCHANGED <<ensure, args, options, text, message, outputFormats, outputPaths, mkdirs,
                   calls, generatedFiles, files, stderr, web>>

(* the argument lists a run is started with: an optional input, the options *)
(* in a fixed order, and an optional last argument                         *)
ArgInput == {<<>>, <<FontTtf>>}
ArgCollection ==
    {<<>>, << <<"-c">>, <<"top500">> >>, << <<"--collection">>, <<"commonlyUsed">> >>,
     << <<"-c">>, <<"invalid">> >>, << <<"-c">>, <<"constructor">> >>}
ArgWords ==
    {<<>>, << <<"-w">>, <<>> >>, << <<"-w">>, <<"A", "A", "c1">> >>,
     << <<"--words">>, <<"U+20BB7">> >>}
ArgOutput ==
    {<<>>, << <<"-o">>, <<"dist", Slash>> >>,
     << <<"-o">>, <<"dist", Slash, "out", Dot, "woff2">> >>,
     << <<"--output">>, <<"my", Dot, "dir", Slash>> >>}
ArgFormats ==
    {<<>>, << <<"-f">>, <<"ttf", ",", " ", "woff">> >>, << <<"--formats">>, <<"woff2">> >>}
ArgJson ==
    {<<>>, << <<"--input-options">>, JsonTypeSvg >>,
     << <<"--input-options">>, <<"invalid-json">> >>,
     << <<"--output-options">>, JsonHinting >>}
ArgLast ==
    {<<>>, << <<"-x">> >>, << <<"other", Dot, "ttf">> >>, << <<"-h">> >>,
     << <<"--version">> >>, << <<"-c">> >>, << <<"-w">> >>}

ArgLists ==
    {i \o c \o w \o o \o f \o j \o l :
        i \in ArgInput, c \in ArgCollection, w \in ArgWords, o \in ArgOutput,
        f \in ArgFormats, j \in ArgJson, l \in ArgLast}

Init ==
    /\ pc = "start"
    /\ args \in ArgLists
    /\ options = NoOptions
    /\ text = Undefined
    /\ message = NoMessage
    /\ outputFormats = <<>>
    /\ outputPaths = <<>>
    /\ mkdirs = <<>>
    /\ calls = <<>>
    /\ generatedFiles = <<>>
    /\ files \in {{}, {FontTtf}}
    /\ stdout = <<>>
    /\ ensure = EnsureIdle
    /\ stderr = <<>>
    /\ exitCode = -1
    /\ web = WebIdle

Next ==
    \/ ParseArguments
    \/ DetermineCharacterText
    \/ DetermineOutputFormats
    \/ GenerateOutputPaths
    \/ Mkdir
    \/ MinifyFontCall
    \/ Finish

Spec == Init /\ [][Next]_vars

(* generateFonts' second loop and the report after it, for every list of    *)
(* formats minifyFont accepts: the run has printed its first lines and made *)
(* the output directories                                                   *)
CssFormatLists == UNION {[1..n -> VALID_FONT_TYPES] : n \in 1..MaxFormats}

CssOutputs == {Null, <<"dist", Slash>>}

InitCss ==
    /\ pc = "generate"
    /\ args = <<>>
    /\ \E f \in CssFormatLists :
       \E o \in CssOutputs :
          /\ options = [NoOptions EXCEPT !.input = FontTtf, !.output = o]
          /\ outputFormats = f
          /\ outputPaths = generateOutputPaths(FontTtf, o, f)
    /\ text = TOP_USED_2500_CHARS
    /\ message = Msg("Using character collection", <<"top2500">>, 0,
                     StrLength(TOP_USED_2500_CHARS))
    /\ mkdirs = [i \in 1..Len(outputPaths) |-> dirname(outputPaths[i])]
    /\ calls = <<>>
    /\ generatedFiles = <<>>
    /\ files = {FontTtf}
    /\ stdout = <<Report("Processing", FontTtf), Report("message", message),
                  Report("Generating", outputFormats)>>
    /\ ensure = EnsureIdle
    /\ stderr = <<>>
    /\ exitCode = -1
    /\ web = WebIdle

NextCss ==
    \/ MinifyFontCall
    \/ Finish

SpecCss == InitCss /\ [][NextCss]_vars

(* minifyFont called directly, as a user of the library calls it: with any  *)
(* input and output name, text and options, whether the input exists or not *)
MinifyInputs ==
    {FontTtf, <<"font", Dot, "woff2">>, <<"font", Dot, "pdf">>, <<"font">>}

MinifyOutputs ==
    {<<"out", Dot, "ttf">>, <<"out", Dot, "woff2">>, <<"out", Dot, "pdf">>,
     <<"dist", Slash, "out">>}

MinifyTexts == {Undefined} \cup Words

MinifyOptions == {EmptyObject, JsonParse(JsonHinting), JsonParse(JsonTypeSvg)}

InitMinify ==
    /\ pc = "minify"
    /\ args = <<>>
    /\ options = NoOptions
    /\ text = Undefined
    /\ message = NoMessage
    /\ outputFormats = <<>>
    /\ outputPaths = <<>>
    /\ mkdirs = <<>>
    /\ calls = <<>>
    /\ generatedFiles = <<>>
    /\ files \in {{}, MinifyInputs}
    /\ stdout = <<>>
    /\ ensure = EnsureIdle
    /\ stderr = <<>>
    /\ exitCode = -1
    /\ web = WebIdle

MinifyDirect ==
    /\ pc = "minify"
    /\ \E i \in MinifyInputs, o \in MinifyOutputs, t \in MinifyTexts,
          io \in MinifyOptions, oo \in MinifyOptions, fault \in Faults :
       \E c \in {[input |-> i, output |-> o, text |-> t, inputOptions |-> io,
                   outputOptions |-> oo]} :
       \E r \in {minifyFont(c, files, fault)} :
          /\ calls' = <<[call |-> c, result |-> r]>>
          /\ files' = IF r.wrote THEN files \cup {c.output} ELSE files
          /\ pc' = IF r.status = "fulfilled" THEN "minified" ELSE "threw"
    /\ UNCHANGED <<ensure, stdout, args, options, text, message, outputFormats, outputPaths,
                   mkdirs, generatedFiles, stderr, exitCode, web>>

SpecMinify == InitMinify /\ [][MinifyDirect]_vars

----------------------------------------------------------------------------
(* createWebFonts *)

Cwd == <<Slash, "cwd">>

(* the segments of a path: the pieces between separators, "" and "." left   *)
(* out; the inputs hold no ".." segment (v is p, bound to its value so that *)
(* it is computed once)                                                     *)
RECURSIVE Segments(_)
Segments(p) ==
    CHOOSE r \in
       {LET slashes == {i \in 1..Len(v) : v[i] = Slash}
        IN IF v = <<>> THEN <<>>
           ELSE IF slashes = {}
           THEN (IF v = <<Dot>> THEN <<>> ELSE <<v>>)
           ELSE LET k == CHOOSE i \in slashes : \A j \in slashes : i <= j
                    head == SubSeq(v, 1, k - 1)
                IN (IF head \in {<<>>, <<Dot>>} THEN <<>> ELSE <<head>>)
                   \o Segments(SubSeq(v, k + 1, Len(v))) : v \in {p}} : TRUE

RECURSIVE JoinSegments(_)
JoinSegments(segs) ==
    IF segs = <<>> THEN <<>> ELSE <<Slash>> \o Head(segs) \o JoinSegments(Tail(segs))

(* path.resolve(a, b): absolute and normalized *)
resolve(a, b) ==
    LET joined == IF b # <<>> /\ b[1] = Slash THEN b
                  ELSE IF a # <<>> /\ a[1] = Slash THEN a \o <<Slash>> \o b
                  ELSE Cwd \o <<Slash>> \o a \o <<Slash>> \o b
    IN CHOOSE r \in {IF segs = <<>> THEN <<Slash>> ELSE JoinSegments(segs) :
                        segs \in {Segments(joined)}} : TRUE

(* the resolveFileName argument: absent, or the documented                  *)
(* ({ basename, ext }) => `${basename}.min.${ext}`                          *)
FileNameResolvers == {"undefined", "basename.min.ext"}

FileName(resolveFileName, base, ext) ==
    IF resolveFileName = "basename.min.ext"
    THEN base \o <<Dot, "min", Dot>> \o ext
    ELSE base \o <<Dot>> \o ext

WebDefaultFormats == << <<"woff2">>, <<"woff">>, <<"ttf">> >>

(* a formats argument that was not passed, and one that is not an array *)
FormatsNotPassed == <<Undefined>>
FormatsNotArray == <<Null>>

(* Array.isArray(formats) *)
IsArray(v) == v \notin {FormatsNotPassed, FormatsNotArray}

InputRequired(input) == ~Truthy(input)

(* !text *)
TextRequired(t) == ~Truthy(t)

(* the argument checks of createWebFonts: the error thrown, "" for none *)
WebValidation(input, t, formats) ==
    IF InputRequired(input) THEN "input parameter is required"
    ELSE IF TextRequired(t) THEN "text parameter is required"
    ELSE IF ~IsArray(formats) \/ Len(formats) = 0
    THEN "formats must be a non-empty array"
    ELSE ""

(* the output of a call named without the resolveFileName argument *)
WebOutputPlainName(w, format) ==
    resolve(w.targetDir,
            FileName("undefined", basename(w.input, extname(w.input)), format))

WebOutput(w, format) ==
    resolve(w.targetDir,
            FileName(w.resolveFileName, basename(w.input, extname(w.input)), format))

(* the call is made; formats = [...] is the parameter default *)
WebCall(input, outputDir, t, resolveFileName, formats) ==
    [pc |-> "called", input |-> input, outputDir |-> outputDir, text |-> t,
     resolveFileName |-> resolveFileName,
     formats |-> IF formats = FormatsNotPassed THEN WebDefaultFormats ELSE formats,
     targetDir |-> Undefined, dirs |-> {}, jobs |-> <<>>, settled |-> <<>>,
     returnedDir |-> Undefined, fonts |-> <<>>, error |-> ""]

WebValidate ==
    /\ web.pc = "called"
    /\ LET e == WebValidation(web.input, web.text, web.formats)
       IN web' = IF e # ""
                 THEN [web EXCEPT !.pc = "threw", !.error = e]
                 ELSE [web EXCEPT !.pc = "validated"]
    /\ UNCHANGED <<ensure, stdout, pc, args, options, text, message, outputFormats, outputPaths,
                   mkdirs, calls, generatedFiles, files, stderr, exitCode>>

(* targetDir, ensureDir(targetDir): existsSync, then mkdirSync, which may   *)
(* throw                                                                    *)
WebEnsureDir ==
    /\ web.pc = "validated"
    /\ LET targetDir == IF Truthy(web.outputDir) THEN web.outputDir
                        ELSE resolve(dirname(web.input), <<Dot, Slash, "output">>)
       IN \/ web' = [web EXCEPT !.pc = "ensured", !.targetDir = targetDir,
                                !.dirs = web.dirs \cup {targetDir}]
          \/ /\ targetDir \notin web.dirs
             /\ web' = [web EXCEPT !.pc = "threw", !.targetDir = targetDir,
                                   !.error = "mkdirSync failed"]
    /\ UNCHANGED <<ensure, stdout, pc, args, options, text, message, outputFormats, outputPaths,
                   mkdirs, calls, generatedFiles, files, stderr, exitCode>>

(* formats.map(targetType => minifyFont({...})): every call is made, in     *)
(* order; a call whose checks fail before its first await is rejected at    *)
(* once, the others are pending (c is the call and r its outcome, each     *)
(* bound to its value so that it is computed once)                         *)
WebJob(w, format, fs) ==
    CHOOSE job \in
       UNION {{LET early == r.error \in {"is not exists", "Invalid input font type",
                                         "Invalid output font type"}
               IN [call |-> c,
                   status |-> IF early THEN "rejected" ELSE "pending",
                   result |-> r] :
                 r \in {minifyFont(c, fs, "none")}} :
                 c \in {[input |-> w.input, output |-> WebOutput(w, format),
                         text |-> w.text, inputOptions |-> EmptyObject,
                         outputOptions |-> EmptyObject]}} : TRUE

(* the indices 1..n of the calls that are rejected, in the order of the     *)
(* calls                                                                   *)
RECURSIVE RejectedInOrder(_, _)
RejectedInOrder(jobs, n) ==
    IF n = 0 THEN <<>>
    ELSE RejectedInOrder(jobs, n - 1)
            \o (IF jobs[n].status = "rejected" THEN <<n>> ELSE <<>>)

(* a loop that starts the call of the first format only and leaves the     *)
(* others for later                                                        *)
WebLaunchFirstOnly ==
    /\ web.pc = "ensured"
    /\ \E jobs \in {<<WebJob(web, web.formats[1], files)>>} :
          web' = [web EXCEPT !.pc = "awaiting", !.jobs = jobs,
                             !.settled = RejectedInOrder(jobs, Len(jobs))]
    /\ UNCHANGED <<ensure, stdout, pc, args, options, text, message, outputFormats, outputPaths,
                   mkdirs, calls, generatedFiles, files, stderr, exitCode>>

(* settled lists the calls in the order in which they are settled *)
WebLaunch ==
    /\ web.pc = "ensured"
    /\ \E jobs \in {[i \in 1..Len(web.formats) |->
                        WebJob(web, web.formats[i], files)]} :
          web' = [web EXCEPT !.pc = "awaiting",
                             !.jobs = jobs,
                             !.settled = RejectedInOrder(jobs, Len(jobs))]
    /\ UNCHANGED <<ensure, stdout, pc, args, options, text, message, outputFormats, outputPaths,
                   mkdirs, calls, generatedFiles, files, stderr, exitCode>>

(* a pending call runs to its end, in any order among the pending calls *)
WebSettle ==
    /\ web.pc = "awaiting"
    /\ \E i \in {j \in 1..Len(web.jobs) : web.jobs[j].status = "pending"} :
       \E fault \in Faults :
       \E r \in {minifyFont(web.jobs[i].call, files, fault)} :
          /\ web' = [web EXCEPT !.jobs[i].status = r.status,
                                !.jobs[i].result = r,
                                !.settled = Append(web.settled, i)]
          /\ files' = IF r.wrote THEN files \cup {web.jobs[i].call.output}
                      ELSE files
    /\ UNCHANGED <<ensure, stdout, pc, args, options, text, message, outputFormats, outputPaths,
                   mkdirs, calls, generatedFiles, stderr, exitCode>>

WebFontBySettleOrder(w, index) ==
    LET format == w.formats[w.settled[index]]
        result == w.jobs[w.settled[index]]
        fontPath == resolve(w.targetDir,
                            FileName(w.resolveFileName,
                                     basename(w.input, extname(w.input)), format))
    IN IF result.status = "fulfilled"
       THEN [format |-> format, path |-> fontPath, success |-> TRUE,
             hasError |-> FALSE, error |-> ""]
       ELSE [format |-> format, path |-> fontPath, success |-> FALSE,
             hasError |-> TRUE, error |-> result.result.error]

WebFontErrorAlways(w, index) ==
    LET format == w.formats[index]
        result == w.jobs[index]
        fontPath == resolve(w.targetDir,
                            FileName(w.resolveFileName,
                                     basename(w.input, extname(w.input)), format))
    IN [format |-> format, path |-> fontPath,
        success |-> result.status = "fulfilled",
        hasError |-> TRUE, error |-> result.result.error]

WebFontFirstResult(w, index) ==
    LET format == w.formats[index]
        result == w.jobs[1]
        fontPath == resolve(w.targetDir,
                            FileName(w.resolveFileName,
                                     basename(w.input, extname(w.input)), format))
    IN IF result.status = "fulfilled"
       THEN [format |-> format, path |-> fontPath, success |-> TRUE,
             hasError |-> FALSE, error |-> ""]
       ELSE [format |-> format, path |-> fontPath, success |-> FALSE,
             hasError |-> TRUE, error |-> result.result.error]

WebFont(w, index) ==
    LET format == w.formats[index]
        result == w.jobs[index]
        fontPath == resolve(w.targetDir,
                            FileName(w.resolveFileName,
                                     basename(w.input, extname(w.input)), format))
    IN IF result.status = "fulfilled"
       THEN [format |-> format, path |-> fontPath, success |-> TRUE,
             hasError |-> FALSE, error |-> ""]
       ELSE [format |-> format, path |-> fontPath, success |-> FALSE,
             hasError |-> TRUE, error |-> result.result.error]

(* Promise.all in place of Promise.allSettled: the first rejection rejects   *)
(* the batch                                                               *)
WebReturnFailFast ==
    /\ web.pc = "awaiting"
    /\ \/ /\ \E i \in 1..Len(web.jobs) : web.jobs[i].status = "rejected"
          /\ web' = [web EXCEPT !.pc = "threw", !.error = "a call was rejected"]
       \/ /\ \A i \in 1..Len(web.jobs) : web.jobs[i].status = "fulfilled"
          /\ web' = [web EXCEPT !.pc = "returned",
                                !.returnedDir = web.targetDir,
                                !.fonts = [i \in 1..Len(web.formats) |-> WebFont(web, i)]]
    /\ UNCHANGED <<ensure, stdout, pc, args, options, text, message, outputFormats, outputPaths,
                   mkdirs, calls, generatedFiles, files, stderr, exitCode>>

(* Promise.allSettled resolves once no call is pending; the outcomes are    *)
(* mapped and returned                                                     *)
WebReturn ==
    /\ web.pc = "awaiting"
    /\ \A i \in 1..Len(web.jobs) : web.jobs[i].status # "pending"
    /\ web' = [web EXCEPT !.pc = "returned",
                          !.returnedDir = web.targetDir,
                          !.fonts = [i \in 1..Len(web.formats) |-> WebFont(web, i)]]
    /\ UNCHANGED <<ensure, stdout, pc, args, options, text, message, outputFormats, outputPaths,
                   mkdirs, calls, generatedFiles, files, stderr, exitCode>>

WebInputs == {FontTtf, Undefined}
WebTexts == {Undefined, <<>>, <<"A", "c1">>}
WebOutputDirs == {Undefined, <<"dist">>}
(* formats not passed, not an array, empty, every list of distinct formats   *)
(* and one list that names a format twice                                   *)
WebFormatArgs ==
    {FormatsNotPassed, FormatsNotArray, <<>>, << <<"ttf">>, <<"ttf">> >>}
       \cup {f \in FormatLists : NoDup(f)}

InitWeb ==
    /\ pc = "idle"
    /\ args = <<>>
    /\ options = NoOptions
    /\ text = Undefined
    /\ message = NoMessage
    /\ outputFormats = <<>>
    /\ outputPaths = <<>>
    /\ mkdirs = <<>>
    /\ calls = <<>>
    /\ generatedFiles = <<>>
    /\ files \in {{}, {FontTtf}}
    /\ stdout = <<>>
    /\ ensure = EnsureIdle
    /\ stderr = <<>>
    /\ exitCode = -1
    /\ \E i \in WebInputs, d \in WebOutputDirs, t \in WebTexts,
          r \in FileNameResolvers, f \in WebFormatArgs :
          web = WebCall(i, d, t, r, f)

NextWeb ==
    \/ WebValidate
    \/ WebEnsureDir
    \/ WebLaunch
    \/ WebSettle
    \/ WebReturn

SpecWeb == InitWeb /\ [][NextWeb]_vars

(* the synchronous part of the call runs to its end, the event loop runs    *)
(* every started minifyFont call to its end, and it resumes the awaiting    *)
(* caller once the calls are settled                                       *)
(* (the calls that leave outputDir and resolveFileName out: neither has a    *)
(* part in which calls run, fail or settle)                                *)
InitWebFair ==
    /\ InitWeb
    /\ web.outputDir = Undefined
    /\ web.resolveFileName = "undefined"

SpecWebFair == InitWebFair /\ [][NextWeb]_vars /\ WF_vars(NextWeb)

(* a run of the command line tool and then a call of createWebFonts, on    *)
(* the same file system                                                    *)
DirsArgLists ==
    {<<FontTtf>> \o o \o << <<"-f">>, <<"ttf", ",", "woff">> >> :
        o \in {<<>>, << <<"-o">>, <<"dist", Slash>> >>}}

DirsWebFormats == {<< <<"ttf">>, <<"woff">> >>}

InitDirs ==
    /\ pc = "start"
    /\ args \in DirsArgLists
    /\ options = NoOptions
    /\ text = Undefined
    /\ message = NoMessage
    /\ outputFormats = <<>>
    /\ outputPaths = <<>>
    /\ mkdirs = <<>>
    /\ calls = <<>>
    /\ generatedFiles = <<>>
    /\ files = {FontTtf}
    /\ stdout = <<>>
    /\ ensure = EnsureIdle
    /\ stderr = <<>>
    /\ exitCode = -1
    /\ \E d \in WebOutputDirs, r \in FileNameResolvers, f \in DirsWebFormats :
          web = WebCall(FontTtf, d, <<"A", "c1">>, r, f)

NextDirs ==
    \/ Next
    \/ pc \in {"exit", "done"} /\ NextWeb

SpecDirs == InitDirs /\ [][NextDirs]_vars

----------------------------------------------------------------------------
(* ensureDir, called by several callers on one file system *)

MaxCallers == 3

(* the directories above d, the root and the working directory left out *)
RECURSIVE Ancestors(_)
Ancestors(d) ==
    IF dirname(d) \in {<<Slash>>, <<Dot>>, d} THEN {}
    ELSE {dirname(d)} \cup Ancestors(dirname(d))

(* fs.mkdirSync(dir, { recursive }): with recursive the missing directories *)
(* above dir are made too and an existing dir is no error; without it an    *)
(* existing dir is EEXIST and a missing parent ENOENT                       *)
mkdirSync(dirs, dir, recursive) ==
    IF recursive
    THEN [dirs |-> dirs \cup {dir} \cup Ancestors(dir), error |-> ""]
    ELSE IF dir \in dirs THEN [dirs |-> dirs, error |-> "EEXIST"]
    ELSE IF ~(Ancestors(dir) \subseteq dirs) THEN [dirs |-> dirs, error |-> "ENOENT"]
    ELSE [dirs |-> dirs \cup {dir}, error |-> ""]

(* if (!fs.existsSync(dir)) *)
EnsureCheck(p) ==
    /\ ensure.callers[p].pc = "called"
    /\ ensure' = [ensure EXCEPT
                    !.callers[p].pc = IF ensure.callers[p].dir \in ensure.dirs
                                      THEN "returned" ELSE "missing",
                    !.callers[p].sawMissing = ensure.callers[p].dir \notin ensure.dirs]
    /\ UNCHANGED <<pc, args, options, text, message, outputFormats, outputPaths, mkdirs,
                   calls, generatedFiles, files, stdout, stderr, exitCode, web>>

(* mkdirSync without the recursive option *)
EnsureMkdirPlain(p) ==
    /\ ensure.callers[p].pc = "missing"
    /\ \E r \in {mkdirSync(ensure.dirs, ensure.callers[p].dir, FALSE)} :
          ensure' = [ensure EXCEPT
                       !.dirs = r.dirs,
                       !.mkdirSyncCalls = Append(ensure.mkdirSyncCalls,
                                                 ensure.callers[p].dir),
                       !.callers[p].pc = IF r.error = "" THEN "returned" ELSE "threw"]
    /\ UNCHANGED <<pc, args, options, text, message, outputFormats, outputPaths, mkdirs,
                   calls, generatedFiles, files, stdout, stderr, exitCode, web>>

(* fs.mkdirSync(dir, { recursive: true }) *)
EnsureMkdir(p) ==
    /\ ensure.callers[p].pc = "missing"
    /\ \E r \in {mkdirSync(ensure.dirs, ensure.callers[p].dir, TRUE)} :
          ensure' = [ensure EXCEPT
                       !.dirs = r.dirs,
                       !.mkdirSyncCalls = Append(ensure.mkdirSyncCalls,
                                                 ensure.callers[p].dir),
                       !.callers[p].pc = IF r.error = "" THEN "returned" ELSE "threw"]
    /\ UNCHANGED <<pc, args, options, text, message, outputFormats, outputPaths, mkdirs,
                   calls, generatedFiles, files, stdout, stderr, exitCode, web>>

(* the directories ensureDir is called on, and the file systems it finds *)
EnsureDirs == {<<Slash, "a">>, <<Slash, "a", Slash, "b">>, <<"rel">>}

EnsureFileSystems == {{}, {<<Slash, "a">>}, {<<Slash, "a">>, <<Slash, "a", Slash, "b">>}}

InitEnsure ==
    /\ pc = "idle"
    /\ args = <<>>
    /\ options = NoOptions
    /\ text = Undefined
    /\ message = NoMessage
    /\ outputFormats = <<>>
    /\ outputPaths = <<>>
    /\ mkdirs = <<>>
    /\ calls = <<>>
    /\ generatedFiles = <<>>
    /\ files = {}
    /\ stdout = <<>>
    /\ stderr = <<>>
    /\ exitCode = -1
    /\ web = WebIdle
    /\ \E fs \in EnsureFileSystems :
       \E n \in 1..MaxCallers :
       \E d \in [1..n -> EnsureDirs] :
          ensure = [dirs |-> fs,
                    callers |-> [p \in 1..n |-> [pc |-> "called", dir |-> d[p],
                                                 sawMissing |-> FALSE]],
                    mkdirSyncCalls |-> <<>>]

NextEnsure ==
    \E p \in 1..Len(ensure.callers) :
        \/ EnsureCheck(p)
        \/ EnsureMkdir(p)

SpecEnsure == InitEnsure /\ [][NextEnsure]_vars

----------------------------------------------------------------------------
(* Character resolution: claims C1, C2, C3 (under SpecText) *)

(* index of the first occurrence of ch in s *)
FirstIndex(s, ch) == CHOOSE i \in 1..Len(s) : s[i] = ch /\ \A j \in 1..(i - 1) : s[j] # ch

Resolved == pc = "text"

SpecifiedOnlyCase ==
    Resolved /\ IsString(options.words) /\ ~options.collectionSpecified

AppendCase ==
    Resolved /\ IsString(options.words) /\ options.collectionSpecified

(* C1: with words given (any string, "" too) and no -c, the resolved text   *)
(* is the distinct characters of the words in first-occurrence order, no    *)
(* collection adds a character, and the reported count is the number of    *)
(* distinct characters.                                                    *)
C1_SpecifiedOnlyIsDistinctWords ==
    SpecifiedOnlyCase =>
        /\ NoDup(text)
        /\ Range(text) = Range(options.words)
        /\ \A i, j \in 1..Len(text) :
              i < j => FirstIndex(options.words, text[i]) < FirstIndex(options.words, text[j])
        /\ message.kind = "Using specified words only"
        /\ message.n = Cardinality(Range(options.words))

(* C2: in Append mode the resolved subset has no duplicates, holds every    *)
(* character of the collection C and of the text t, and its size is at     *)
(* most |C| + |t| and at least max(|C|, |distinct(t)|).                    *)
C2_AppendIsDeduplicatedUnion ==
    AppendCase =>
        LET C == COLLECTIONS(options.collection)
            t == options.words
        IN /\ NoDup(text)
           /\ Range(C) \subseteq Range(text)
           /\ Range(t) \subseteq Range(text)
           /\ Len(text) <= Len(C) + Len(t)
           /\ Len(text) >= Max(Len(C), Cardinality(Range(t)))

C2_Witness ==
    /\ AppendCase
    /\ ~NoDup(options.words)
    /\ Range(options.words) \cap Range(COLLECTIONS(options.collection)) # {}
    /\ Len(text) > Len(COLLECTIONS(options.collection))

(* C3: without words the resolved text is the named collection verbatim,   *)
(* explicit or default top2500, and the message names it; which of the      *)
(* three modes is taken depends only on (words present, -c given).          *)
C3_CollectionOnlyAndModeChoice ==
    Resolved =>
        /\ (options.words = Null /\ options.collection = <<"top500">>)
              => text = TOP_USED_500_CHARS
        /\ (options.words = Null /\ options.collection = <<"top2500">>)
              => text = TOP_USED_2500_CHARS
        /\ (options.words = Null /\ options.collection = <<"commonlyUsed">>)
              => text = COMMONLY_USED_CHARS
        /\ (options.words = Null /\ ~options.collectionSpecified)
              => text = TOP_USED_2500_CHARS
        /\ options.words = Null
              => /\ message.collection = options.collection
                 /\ message.n = JsLength(text)
        /\ message.kind =
              IF options.words # Null /\ ~options.collectionSpecified
              THEN "Using specified words only"
              ELSE IF options.words # Null /\ options.collectionSpecified
              THEN "Using collection + custom words"
              ELSE "Using character collection"

C3_Witness ==
    /\ Resolved
    /\ options.words = Null
    /\ options.collectionSpecified
    /\ options.collection = <<"commonlyUsed">>
    /\ text = COMMONLY_USED_CHARS

----------------------------------------------------------------------------
(* Output path resolution: claims C7, C8, C9, C10 (under SpecPaths) *)

Planned == pc = "paths"

Ttf == <<"ttf">>
Woff == <<"woff">>
Woff2 == <<"woff2">>

(* path.join(dir, name) for a relative dir: one separator between them *)
JoinDir(dir, name) == SubSeq(dir, 1, LastIndex(dir, Slash, FALSE)) \o <<Slash>> \o name

(* C7: the output spec is a file iff it has an extension, and then the      *)
(* path of format f is the spec with its extension replaced by .f: same     *)
(* directory, same base name, extension exactly f.                         *)
C7_FileBranchReplacesExtension ==
    (Planned /\ Truthy(options.output) /\ extname(options.output) # <<>>) =>
        \A i \in 1..Len(outputPaths) :
            /\ extname(outputPaths[i]) = <<Dot>> \o outputFormats[i]
            /\ dirname(outputPaths[i]) = dirname(options.output)
            /\ basename(outputPaths[i], extname(outputPaths[i]))
                 = basename(options.output, extname(options.output))

(* C8: an output spec without extension is a directory and format f gets   *)
(* the directory joined with {inputBaseName}.min.{f}; font.ttf, dist/ and   *)
(* [ttf, woff] give exactly [dist/font.min.ttf, dist/font.min.woff].       *)
C8_DirectoryBranchJoins ==
    (Planned /\ Truthy(options.output) /\ extname(options.output) = <<>>) =>
        /\ \A i \in 1..Len(outputPaths) :
              outputPaths[i] =
                 JoinDir(options.output,
                         basename(options.input, extname(options.input))
                            \o <<Dot, "min", Dot>> \o outputFormats[i])
        /\ (options.input = FontTtf /\ options.output = <<"dist", Slash>>
               /\ outputFormats = <<Ttf, Woff>>)
              => outputPaths = << <<"dist", Slash, "font", Dot, "min", Dot, "ttf">>,
                                  <<"dist", Slash, "font", Dot, "min", Dot, "woff">> >>

(* C9: with no output spec, format f gets the input's path with its         *)
(* extension replaced by .min.f: same directory, same base name.           *)
C9_AbsentBranchBesideInput ==
    (Planned /\ options.output = Null) =>
        \A i \in 1..Len(outputPaths) :
            /\ dirname(outputPaths[i]) = dirname(options.input)
            /\ basename(outputPaths[i], <<>>)
                 = basename(options.input, extname(options.input))
                      \o <<Dot, "min", Dot>> \o outputFormats[i]

C9_Witness ==
    /\ Planned
    /\ options.output = Null
    /\ options.input = <<"dist", Slash, "font", Dot, "ttf">>
    /\ outputFormats = <<Woff2>>
    /\ outputPaths = << <<"dist", Slash, "font", Dot, "min", Dot, "woff2">> >>

(* C10: the plan has one path per requested format, in the order of the     *)
(* requested formats: outputPaths[i] is the path of outputFormats[i].       *)
C10_OnePathPerFormatInOrder ==
    Planned =>
        /\ Len(outputPaths) = Len(outputFormats)
        /\ \A i \in 1..Len(outputFormats) :
              outputPaths[i] = OutputPathFor(options.input, options.output, outputFormats[i])

C10_Witness ==
    /\ Planned
    /\ outputFormats = <<Woff2, Ttf, Woff>>
    /\ options.output = <<"dist">>
    /\ outputPaths[1] = <<"dist", Slash, "font", Dot, "min", Dot, "woff2">>
    /\ outputPaths[3] = <<"dist", Slash, "font", Dot, "min", Dot, "woff">>

----------------------------------------------------------------------------
(* Runs of the command line tool: claims C4, C5 (under Spec) *)

RegisteredNames == {<<n>> : n \in CollectionNames}

(* -c/--collection is given with a value that is no registered name, or     *)
(* with no value at all                                                    *)
UnregisteredCollectionGiven ==
    \E i \in 1..Len(args) :
        /\ args[i] \in {<<"-c">>, <<"--collection">>}
        /\ (i = Len(args) \/ args[i + 1] \notin RegisteredNames)

(* the arguments besides -c are acceptable: an input, no unknown flag, no   *)
(* second input, no help or version request, no malformed JSON, no -w       *)
(* without a value                                                         *)
OtherArgumentsValid ==
    /\ Len(args) > 0
    /\ args[1] = FontTtf
    /\ \A i \in 1..Len(args) :
          args[i] \notin {<<"-x">>, <<"-h">>, <<"--version">>,
                          <<"other", Dot, "ttf">>, <<"invalid-json">>}
    /\ args[Len(args)] # <<"-w">>

Terminated == pc \in {"exit", "done"}

(* C4: a -c value that is not top500, top2500 or commonlyUsed (a missing    *)
(* value too) ends the run with exit status 1 and a message that lists the  *)
(* valid names, whatever the other arguments select, and minifyFont is      *)
(* never invoked in that run.                                              *)
C4_UnknownCollectionIsFatal ==
    (UnregisteredCollectionGiven /\ OtherArgumentsValid) =>
        /\ calls = <<>>
        /\ Terminated =>
              /\ exitCode = 1
              /\ \E k \in 1..Len(stderr) :
                    /\ stderr[k].kind = "Error: Invalid collection"
                    /\ stderr[k].detail[2] = CollectionKeys

(* C5: in a run with -w "" and no -c the code points the codec is asked to  *)
(* keep (the subset minifyFont hands to Font.create) are none: the codec    *)
(* is never asked to keep a code point outside the resolved subset.         *)
C5_EmptyWordsKeepNothing ==
    (options.words = <<>> /\ ~options.collectionSpecified) =>
        \A k \in 1..Len(calls) :
            calls[k].result.created =>
                /\ RetainedByCodec(calls[k].result.createOptions.subset)
                      \subseteq Range(CharCodes(text))
                /\ RetainedByCodec(calls[k].result.createOptions.subset) = {}

----------------------------------------------------------------------------
(* Empty custom text in the orchestration layer: claim C6 (under SpecWeb    *)
(* for createWebFonts, under Spec for the command line tool)                *)

(* C6: the orchestration layer never rejects an empty custom text: with     *)
(* text "" the command line run and createWebFonts both pass validation     *)
(* and go on to invoke the codec for every requested format instead of      *)
(* failing with a validation error.                                        *)
C6_EmptyTextIsNotRejected ==
    /\ (web.pc \in {"threw", "returned"} /\ web.text = <<>> /\ Truthy(web.input)
           /\ IsArray(web.formats) /\ Len(web.formats) > 0)
          => /\ web.error # "text parameter is required"
             /\ web.pc = "returned" => Len(web.jobs) = Len(web.formats)
    /\ (pc \in {"exit", "done"} /\ options.words = <<>> /\ stderr # <<>>)
          => stderr[1].kind = "Error minifying font"

----------------------------------------------------------------------------
(* Format inference: claim C11 (under SpecFormats) *)

FormatsDetermined == pc = "formats"

(* C11: a format list given with -f (a non-empty value) determines the      *)
(* formats: its names between the commas, trimmed, in order; without one,   *)
(* an output spec with an extension gives that extension as the single      *)
(* format; without either, the formats are ttf, woff, woff2.                *)
C11_FormatInferencePrecedence ==
    FormatsDetermined =>
        /\ Truthy(options.formats) =>
              \A l \in FormatLists : \A sep \in CsvSeparators :
                  options.formats = JoinCsv(l, sep) => outputFormats = l
        /\ (~Truthy(options.formats) /\ Truthy(options.output)
               /\ extname(options.output) # <<>>)
              => /\ Len(outputFormats) = 1
                 /\ <<Dot>> \o outputFormats[1] = extname(options.output)
        /\ (~Truthy(options.formats)
               /\ (~Truthy(options.output) \/ extname(options.output) = <<>>))
              => outputFormats = <<Ttf, Woff, Woff2>>

C11_Witness ==
    /\ FormatsDetermined
    /\ options.formats = <<"woff", ",", " ", "ttf">>
    /\ options.output = <<"dist", Slash, "out", Dot, "woff2">>
    /\ outputFormats = <<Woff, Ttf>>

----------------------------------------------------------------------------
(* The batch of createWebFonts: claims C12 to C16 (under SpecWeb) *)

WebReturned == web.pc = "returned"

(* the formats whose minifyFont call was rejected *)
FailedJobs == {i \in 1..Len(web.jobs) : web.jobs[i].status = "rejected"}

(* C12: when the codec call fails for exactly one of three requested        *)
(* formats, fonts has length 3, the entry of the failing format alone has    *)
(* success false and carries its error, and the other two have success      *)
(* true and their output files are written.                                 *)
C12_OneFailureIsIsolated ==
    (WebReturned /\ Len(web.formats) = 3 /\ Cardinality(FailedJobs) = 1) =>
        /\ Len(web.fonts) = 3
        /\ Cardinality({i \in 1..3 : ~web.fonts[i].success}) = 1
        /\ \A i \in 1..3 :
              IF i \in FailedJobs
              THEN /\ ~web.fonts[i].success
                   /\ web.fonts[i].format = web.formats[i]
                   /\ web.fonts[i].hasError
                   /\ web.fonts[i].error = web.jobs[i].result.error
              ELSE /\ web.fonts[i].success
                   /\ web.fonts[i].path \in files

C12_Witness ==
    /\ WebReturned
    /\ web.formats = <<Woff2, Woff, Ttf>>
    /\ FailedJobs = {2}
    /\ web.jobs[2].result.error = "Font.create failed"
    /\ ~web.fonts[2].success
    /\ web.fonts[1].success /\ web.fonts[3].success

WebSetUp == web.pc = "ensured"

(* C13: once validation and directory creation have succeeded the batch     *)
(* eventually resolves and never rejects, whichever per-format calls fail,  *)
(* and it resolves only when every per-format call is fulfilled or          *)
(* rejected.                                                                *)
C13_SettleAll ==
    /\ WebSetUp ~> WebReturned
    /\ [][web.pc \in {"ensured", "awaiting", "returned"} => web'.pc # "threw"]_vars
    /\ [](WebReturned =>
            /\ Len(web.jobs) = Len(web.formats)
            /\ \A i \in 1..Len(web.jobs) :
                  web.jobs[i].status \in {"fulfilled", "rejected"})

C13_Witness ==
    /\ WebReturned
    /\ Len(web.formats) = 3
    /\ web.jobs[1].result.error = "readFile failed"
    /\ web.jobs[2].result.error = "writeFile failed"
    /\ web.jobs[3].status = "fulfilled"

(* C14: whatever the order in which the per-format calls complete, the      *)
(* result has one outcome per requested format and fonts[i] is the outcome  *)
(* of formats[i]: its format, and the path its call was given.              *)
C14_OutcomesInRequestOrder ==
    WebReturned =>
        /\ Len(web.fonts) = Len(web.formats)
        /\ \A i \in 1..Len(web.formats) :
              /\ web.fonts[i].format = web.formats[i]
              /\ web.fonts[i].path = web.jobs[i].call.output

C14_Witness ==
    /\ WebReturned
    /\ web.formats = <<Woff2, Woff, Ttf>>
    /\ web.settled = <<3, 1, 2>>
    /\ web.fonts[1].format = Woff2
    /\ web.fonts[2].format = Woff
    /\ web.fonts[3].format = Ttf

(* C15: in every outcome of the result the error field is present exactly   *)
(* when success is false, and success is true exactly when the minifyFont   *)
(* call of that format was fulfilled.                                       *)
C15_ErrorIffNotSuccess ==
    WebReturned =>
        \A i \in 1..Len(web.fonts) :
            /\ web.fonts[i].hasError <=> ~web.fonts[i].success
            /\ web.fonts[i].success <=> web.jobs[i].status = "fulfilled"

C15_Witness ==
    /\ WebReturned
    /\ Len(web.fonts) = 2
    /\ web.jobs[1].status = "rejected"
    /\ web.fonts[1].hasError /\ ~web.fonts[1].success
    /\ web.jobs[2].status = "fulfilled"
    /\ web.fonts[2].success /\ ~web.fonts[2].hasError

(* C16: when the input font file does not exist, createWebFonts fails as a  *)
(* whole before any per-format call is started: it never starts a call and  *)
(* never resolves with per-format failure records.                          *)
C16_MissingInputIsFatal ==
    web.input \notin files =>
        /\ web.pc \notin {"awaiting", "returned"}
        /\ web.jobs = <<>>
        /\ web.fonts = <<>>

(* what the run printed of the given kind, in order *)
Printed(kind) ==
    LET Test(line) == line.kind = kind IN SelectSeq(stdout, Test)

CssPrinted == Printed("css") # <<>>

(* the codec itself failed in a call: Font.create, font.write or the woff2 *)
(* initialisation threw                                                    *)
CodecErrors == {"Font.create failed", "font.write failed", "woff2.init failed"}

CodecFailedIn(i) ==
    /\ calls[i].result.status = "rejected"
    /\ calls[i].result.error \in CodecErrors

(* C17: in a run where the codec fails for one requested format, every      *)
(* requested format is still attempted, the @font-face block is still       *)
(* printed for the formats that succeeded, and the exit code is the one of  *)
(* a successful run.                                                        *)
C17_FormatFailureIsIsolated ==
    (Terminated /\ \E i \in 1..Len(calls) : CodecFailedIn(i)) =>
        /\ Len(calls) = Len(outputFormats)
        /\ CssPrinted
        /\ exitCode = 0

(* C18: when a minifyFont call of the run rejects, runCLI reports           *)
(* 'Error minifying font' with the message of that error and the process    *)
(* exits with status 1.                                                     *)
C18_RejectionIsReportedAndFatal ==
    \A i \in 1..Len(calls) :
        calls[i].result.status = "rejected" =>
            /\ pc = "exit"
            /\ exitCode = 1
            /\ stderr = <<Report("Error minifying font", calls[i].result.error)>>

C18_Witness ==
    /\ pc = "exit"
    /\ exitCode = 1
    /\ Len(calls) = 2
    /\ calls[1].result.status = "fulfilled"
    /\ calls[2].result.status = "rejected"
    /\ stderr = <<Report("Error minifying font", "font.write failed")>>

(* C19: the sources of the printed @font-face block are in ascending order  *)
(* of the preference rank woff2 (0), woff (1), ttf (2), anything else (3):  *)
(* every woff2 source precedes every woff source, which precedes every ttf  *)
(* source, which precedes every other format.                               *)
C19_SourcesInPreferenceOrder ==
    LET rank(ext) == IF ext = <<"woff2">> THEN 0
                     ELSE IF ext = <<"woff">> THEN 1
                     ELSE IF ext = <<"ttf">> THEN 2
                     ELSE 3
        blocks == Printed("css")
    IN \A k \in 1..Len(blocks) :
          LET src == blocks[k].detail.src
          IN \A i, j \in 1..Len(src) :
                i < j => rank(PopExt(src[i].url)) <= rank(PopExt(src[j].url))

(* C20: the printed @font-face block has one source per generated file and *)
(* nothing else: every source is the file of a requested format whose      *)
(* minifyFont call was fulfilled, a run with a failed format prints no      *)
(* source at all, and the format keyword of a source is 'truetype' for ttf  *)
(* and the name of the format for every other format.                       *)
C20_SourcesAreTheGeneratedFiles ==
    LET keyword(format) == IF format = <<"ttf">> THEN <<"truetype">> ELSE format
        blocks == Printed("css")
        Count(seq, x) == Cardinality({i \in 1..Len(seq) : seq[i] = x})
    IN /\ (\E j \in 1..Len(calls) : calls[j].result.status = "rejected") => blocks = <<>>
       /\ \A k \in 1..Len(blocks) :
             LET src == blocks[k].detail.src
                 urls == [i \in 1..Len(src) |-> src[i].url]
             IN /\ Len(src) = Len(generatedFiles)
                /\ \A i \in 1..Len(src) :
                      /\ Count(urls, urls[i]) = Count(generatedFiles, urls[i])
                      /\ \E j \in 1..Len(calls) :
                            /\ calls[j].result.status = "fulfilled"
                            /\ outputPaths[j] = src[i].url
                            /\ src[i].format = keyword(outputFormats[j])

C20_Witness ==
    /\ pc = "done"
    /\ outputFormats = << <<"otf">>, <<"ttf">> >>
    /\ Len(generatedFiles) = 2
    /\ Printed("css") # <<>>
    /\ Printed("css")[1].detail.src =
          <<[url |-> outputPaths[2], format |-> <<"truetype">>],
            [url |-> outputPaths[1], format |-> <<"otf">>]>>

(* The command line as its user writes it: an option that takes a value    *)
(* is followed by that value, everything else stands for itself            *)
ValueOptions ==
    {<<"-c">>, <<"--collection">>, <<"-w">>, <<"--words">>, <<"-o">>, <<"--output">>,
     <<"-f">>, <<"--formats">>, <<"--input-options">>, <<"--output-options">>}

InfoOptions == {<<"-h">>, <<"--help">>, <<"-v">>, <<"--version">>}

(* the indexes of a that hold an option or a positional argument, from i on *)
RECURSIVE ArgumentPositions(_, _)
ArgumentPositions(a, i) ==
    IF i > Len(a) THEN {}
    ELSE {i} \cup ArgumentPositions(a, IF a[i] \in ValueOptions THEN i + 2 ELSE i + 1)

ValueAt(a, k) == IF k + 1 <= Len(a) THEN a[k + 1] ELSE Undefined

IsPositional(a, k) == ~StartsWithDash(a[k])

(* the argument at k is one of the validation errors *)
InvalidAt(a, k) ==
    \/ StartsWithDash(a[k]) /\ a[k] \notin ValueOptions \cup InfoOptions
    \/ /\ IsPositional(a, k)
       /\ \E j \in ArgumentPositions(a, 1) : j < k /\ IsPositional(a, j)
    \/ /\ a[k] \in {<<"--input-options">>, <<"--output-options">>}
       /\ ~JsonValid(ValueAt(a, k))
    \/ /\ a[k] \in {<<"-c">>, <<"--collection">>}
       /\ ValueAt(a, k) \notin {<<"top500">>, <<"top2500">>, <<"commonlyUsed">>}

NoPositional(a) == \A k \in ArgumentPositions(a, 1) : ~IsPositional(a, k)

(* the run stopped with status 1 and did no work *)
StoppedBeforeWork ==
    /\ mkdirs = <<>>
    /\ calls = <<>>
    /\ files \subseteq {FontTtf}
    /\ pc \in {"parsed", "exit"}
    /\ pc = "exit" => exitCode = 1

(* C21: every argument list with an unknown flag, a second positional      *)
(* input, no positional input, malformed JSON for an options argument or    *)
(* an invalid collection name exits with status 1, and no directory is      *)
(* created and no codec call is made before the exit. Read in favour of the *)
(* claim: the empty argument list and the lists that ask for the help or    *)
(* the version text are left out.                                           *)
C21_ValidationErrorsStopAllWork ==
    (/\ pc # "start"
     /\ args # <<>>
     /\ \A k \in 1..Len(args) : args[k] \notin InfoOptions
     /\ \/ NoPositional(args)
        \/ \E k \in ArgumentPositions(args, 1) : InvalidAt(args, k))
        => StoppedBeforeWork

(* C22: minifyFont rejects a missing input first, then an input extension   *)
(* that is not a font type, then an output extension that is not one; in    *)
(* these cases and when woff2.init, readFile or Font.create fails the       *)
(* caller gets the error and the output path is not written.                *)
C22_ChecksInOrderAndNothingWritten ==
    \A k \in 1..Len(calls) :
        LET c == calls[k].call
            r == calls[k].result
            inputOk == Slice1(extname(c.input)) \in VALID_FONT_TYPES
            outputOk == Slice1(extname(c.output)) \in VALID_FONT_TYPES
        IN pc \in {"minified", "threw"} =>
            /\ c.input \notin files => r.error = "is not exists"
            /\ c.input \in files /\ ~inputOk => r.error = "Invalid input font type"
            /\ c.input \in files /\ inputOk /\ ~outputOk
                  => r.error = "Invalid output font type"
            /\ r.error \in {"is not exists", "Invalid input font type",
                             "Invalid output font type", "woff2.init failed",
                             "readFile failed", "Font.create failed"}
                  => /\ r.status = "rejected"
                     /\ pc = "threw"
                     /\ ~r.wrote
                     /\ c.output \notin files

C22_Witness ==
    /\ pc = "threw"
    /\ files = {}
    /\ calls[1].call.input = <<"font", Dot, "pdf">>
    /\ calls[1].call.output = <<"out", Dot, "pdf">>
    /\ calls[1].result.status = "rejected"
    /\ calls[1].result.error = "is not exists"

(* C23: the subset minifyFont hands to Font.create is, for a non-empty      *)
(* text, the character codes of the text in text order, one per UTF-16     *)
(* unit and with repetitions kept; for the empty string it is the empty     *)
(* string itself and for an undefined text it is undefined.                 *)
C23_SubsetIsTheCharCodesInOrder ==
    \A k \in 1..Len(calls) :
        calls[k].result.created =>
            LET t == calls[k].call.text
                subset == calls[k].result.createOptions.subset
            IN /\ t = Undefined => subset = Undefined
               /\ t = <<>> => subset = <<>>
               /\ t \notin {Undefined, <<>>} =>
                     /\ Len(subset) = StrLength(t)
                     /\ (\A i \in 1..Len(t) : t[i] \notin AstralChars) => subset = t

C23_Witness ==
    /\ pc = "minified"
    /\ calls[1].call.text = <<"A", "A", "A">>
    /\ calls[1].result.created
    /\ calls[1].result.createOptions.subset = <<"A", "A", "A">>

C25_FanOut ==
    /\ [](web.pc \in {"awaiting", "returned"} =>
            /\ Len(web.jobs) = Len(web.formats)
            /\ \A j \in 1..Len(web.formats) :
                  web.jobs[j].call.output = WebOutput(web, web.formats[j]))
    /\ [][web.pc = "awaiting" =>
            /\ Len(web'.jobs) = Len(web.jobs)
            /\ \A j \in 1..Len(web.jobs) :
                  /\ web'.jobs[j].call = web.jobs[j].call
                  /\ web.jobs[j].status # "pending" => web'.jobs[j] = web.jobs[j]
                  /\ web'.jobs[j].status # web.jobs[j].status
                        => web'.settled = Append(web.settled, j)]_vars

C25_Witness ==
    /\ web.pc = "awaiting"
    /\ Len(web.jobs) = 3
    /\ web.settled = <<2>>
    /\ web.jobs[2].status = "rejected"
    /\ web.jobs[1].status = "pending"
    /\ web.jobs[3].status = "pending"

C27_EnsureDirIsIdempotent ==
    /\ [](\A p \in 1..Len(ensure.callers) :
            /\ ensure.callers[p].pc # "threw"
            /\ ensure.callers[p].pc = "returned"
                  => ensure.callers[p].dir \in ensure.dirs)
    /\ [][\A p \in 1..Len(ensure.callers) :
            /\ ensure.dirs \subseteq ensure'.dirs
            /\ (/\ ensure.callers[p].pc = "called"
                /\ ensure.callers[p].dir \in ensure.dirs
                /\ ensure'.callers[p].pc # "called")
                  => /\ ensure'.callers[p].pc = "returned"
                     /\ ensure'.dirs = ensure.dirs
                     /\ ensure'.mkdirSyncCalls = ensure.mkdirSyncCalls]_vars

C27_Witness ==
    /\ Len(ensure.callers) >= 2
    /\ ensure.callers[1].dir = ensure.callers[2].dir
    /\ ensure.callers[1].sawMissing /\ ensure.callers[2].sawMissing
    /\ ensure.callers[1].pc = "returned" /\ ensure.callers[2].pc = "returned"
    /\ Len(ensure.mkdirSyncCalls) = 2

(* the value the argument list gives the option named by one of flags, or  *)
(* none when the option is not in the list                                 *)
OptionValues(a, flags) ==
    {ValueAt(a, k) : k \in {j \in ArgumentPositions(a, 1) : a[j] \in flags}}

(* C28: in a run in which every minifyFont call succeeds there is exactly  *)
(* one call per requested format, three when neither -f nor an output file *)
(* names the formats and n for a -f list of n names; the call of format i  *)
(* is given outputPaths[i], and every call is given the input path, the    *)
(* resolved text and the objects parsed from --input-options and           *)
(* --output-options.                                                       *)
C28_OneCallPerFormat ==
    pc \in {"generated", "done"} =>
        LET commas(v) == Cardinality({i \in 1..Len(v) : v[i] = ","})
            Option(flag) == IF OptionValues(args, {flag}) = {} THEN EmptyObject
                            ELSE JsonParse(CHOOSE v \in OptionValues(args, {flag}) : TRUE)
        IN /\ Len(calls) = Len(outputFormats)
           /\ Len(calls) = Len(outputPaths)
           /\ (options.formats = Null /\ options.output = Null) => Len(calls) = 3
           /\ \A v \in OptionValues(args, {<<"-f">>, <<"--formats">>}) :
                 Len(calls) = commas(v) + 1
           /\ \A i \in 1..Len(calls) :
                 /\ calls[i].result.status = "fulfilled"
                 /\ calls[i].call.output = outputPaths[i]
                 /\ calls[i].call.input = options.input
                 /\ calls[i].call.input = args[1]
                 /\ calls[i].call.text = text
                 /\ calls[i].call.inputOptions = Option(<<"--input-options">>)
                 /\ calls[i].call.outputOptions = Option(<<"--output-options">>)

C28_Witness ==
    /\ pc = "done"
    /\ Len(calls) = 2
    /\ OptionValues(args, {<<"-f">>}) = {<<"ttf", ",", " ", "woff">>}
    /\ calls[1].call.output # calls[2].call.output
    /\ calls[1].call.inputOptions = [type |-> <<"svg">>, subset |-> <<"B">>]
    /\ calls[2].call.inputOptions = [type |-> <<"svg">>, subset |-> <<"B">>]
    /\ calls[1].call.text = calls[2].call.text

(* C29: for every input, every output spec and every list of pairwise      *)
(* distinct formats, the paths generateOutputPaths computes are pairwise   *)
(* distinct and the path of a format ends with a dot and that format.       *)
C29_PathsAreDistinct ==
    (pc = "paths" /\ NoDup(outputFormats)) =>
        /\ Len(outputPaths) = Len(outputFormats)
        /\ \A i, j \in 1..Len(outputPaths) : i # j => outputPaths[i] # outputPaths[j]
        /\ \A i \in 1..Len(outputPaths) :
              LET path == outputPaths[i]
                  suffix == <<Dot>> \o outputFormats[i]
              IN /\ Len(path) > Len(suffix)
                 /\ SubSeq(path, Len(path) - Len(suffix) + 1, Len(path)) = suffix

(* C30: whatever inputOptions and outputOptions hold, Font.create is given *)
(* the extension of the input as type and the subset derived from the     *)
(* text, font.write is given the extension of the output as type, and     *)
(* every other key of the options is handed on as it is.                   *)
C30_DerivedOptionsWin ==
    \A k \in 1..Len(calls) :
        LET c == calls[k].call
            r == calls[k].result
            Derived == {"type", "subset"}
        IN /\ r.created =>
               /\ r.createOptions.type = Slice1(extname(c.input))
               /\ r.createOptions.subset = SubsetOf(c.text)
               /\ DOMAIN r.createOptions = DOMAIN c.inputOptions \cup Derived
               /\ \A key \in DOMAIN c.inputOptions \ Derived :
                     r.createOptions[key] = c.inputOptions[key]
           /\ r.wrote =>
               /\ r.writeOptions.type = Slice1(extname(c.output))
               /\ DOMAIN r.writeOptions = DOMAIN c.outputOptions \cup {"type"}
               /\ \A key \in DOMAIN c.outputOptions \ {"type"} :
                     r.writeOptions[key] = c.outputOptions[key]

C30_Witness ==
    /\ pc = "minified"
    /\ calls[1].call.input = FontTtf
    /\ calls[1].call.output = <<"out", Dot, "woff2">>
    /\ calls[1].call.text = <<"A">>
    /\ calls[1].call.inputOptions = [type |-> <<"svg">>, subset |-> <<"B">>]
    /\ calls[1].call.outputOptions = [type |-> <<"svg">>, subset |-> <<"B">>]
    /\ calls[1].result.createOptions = [type |-> <<"ttf">>, subset |-> <<"A">>]
    /\ calls[1].result.writeOptions = [type |-> <<"woff2">>, subset |-> <<"B">>]

====
